---- MODULE Spec2Model ----
(***************************************************************************)
(* Model of the payment gateway SDK (src/lib/PaymentGateway.js): the       *)
(* request signer _generateSign and the four HTTP operations createOrder,  *)
(* queryOrder, checkOrderStatus and getExchangeRate.                       *)
(***************************************************************************)
EXTENDS Integers, Sequences, FiniteSets, TLC

VARIABLES gateway, signP, signQ, signRel, signAdded, signOut, signOutQ, calls, poll

signVars == <<signP, signQ, signRel, signAdded, signOut, signOutQ>>

vars == <<gateway, signVars, calls, poll>>

(***************************************************************************)
(* Bounds of the model.                                                    *)
(***************************************************************************)
\* largest number of entries of a parameter set handed to _generateSign
MaxParams == 2
\* largest number of excluded entries added to a signed parameter set
MaxExtra == 1
\* number of invocations the client can have in progress
MaxCalls == 2
\* largest maxAttempts handed to pollOrderStatus
MaxAttempts == 3

(***************************************************************************)
(* JavaScript values.  Numbers are kept in hundredths (Scale), so that     *)
(* 0.01 is the finite number with c = 1 and 100 the one with c = 10000.    *)
(***************************************************************************)
Scale == 100

Undefined == [t |-> "undefined"]
Null == [t |-> "null"]
Str(s) == [t |-> "string", s |-> s]
Bool(b) == [t |-> "boolean", b |-> b]
Cents(c) == [t |-> "number", k |-> "finite", c |-> c]
NaN == [t |-> "number", k |-> "NaN"]
Infinity == [t |-> "number", k |-> "Infinity"]
Arr(items) == [t |-> "array", items |-> items]
Obj(entries) == [t |-> "object", entries |-> entries]
Prop(key, value) == [k |-> key, v |-> value]
\* a string whose characters matter: its pieces in order, a piece being "/"
\* or a text without "/"
Text(parts) == [t |-> "text", parts |-> parts]

\* typeof value === 'object' (null included, as in the language)
TypeofObject(v) == v.t \in {"object", "array", "null"}

\* ToBoolean: the falsy values are undefined, null, false, 0, NaN and ''
Truthy(v) ==
  CASE v.t \in {"undefined", "null"} -> FALSE
    [] v.t = "boolean" -> v.b
    [] v.t = "string" -> v.s # ""
    [] v.t = "text" -> Len(v.parts) > 0
    [] v.t = "number" -> IF v.k = "finite" THEN v.c # 0 ELSE v.k # "NaN"
    [] OTHER -> TRUE

\* a || b
OrElse(a, b) == IF Truthy(a) THEN a ELSE b

(***************************************************************************)
(* Number-to-string conversion of a finite number given in hundredths:     *)
(* 10000 -> "100", 1 -> "0.01", 150 -> "1.5", -500 -> "-5".                *)
(***************************************************************************)
Abs(n) == IF n < 0 THEN -n ELSE n

NumberToString(v) ==
  IF v.k # "finite" THEN v.k
  ELSE LET a == Abs(v.c)
           whole == a \div Scale
           frac == a % Scale
           sgn == IF v.c < 0 THEN "-" ELSE ""
       IN  IF frac = 0 THEN sgn \o ToString(whole)
           ELSE IF frac % 10 = 0
                THEN sgn \o ToString(whole) \o "." \o ToString(frac \div 10)
                ELSE sgn \o ToString(whole) \o "."
                         \o ToString(frac \div 10) \o ToString(frac % 10)

\* pairs.join(sep)
RECURSIVE Join(_, _)
Join(strs, sep) ==
  IF Len(strs) = 0 THEN ""
  ELSE IF Len(strs) = 1 THEN strs[1]
  ELSE strs[1] \o sep \o Join(Tail(strs), sep)

(***************************************************************************)
(* JSON.stringify(value) without indentation.  Properties keep their       *)
(* insertion order; an undefined property is omitted and an undefined      *)
(* array element is written null.  The strings of the model need no        *)
(* escaping.                                                               *)
(***************************************************************************)
RECURSIVE JSONStringify(_)
JSONStringify(v) ==
  CASE v.t = "string" -> "\"" \o v.s \o "\""
    [] v.t = "number" -> IF v.k = "finite" THEN NumberToString(v) ELSE "null"
    [] v.t = "boolean" -> IF v.b THEN "true" ELSE "false"
    [] v.t = "null" -> "null"
    [] v.t = "undefined" -> "null"
    [] v.t = "array" ->
         "[" \o Join([i \in 1..Len(v.items) |-> JSONStringify(v.items[i])], ",") \o "]"
    [] v.t = "object" ->
         LET kept == SelectSeq(v.entries, LAMBDA e : e.v.t # "undefined")
         IN  "{" \o Join([i \in 1..Len(kept) |->
                            "\"" \o kept[i].k \o "\":" \o JSONStringify(kept[i].v)], ",")
                 \o "}"

\* `${value}` for a value that is not an object
TemplateString(v) ==
  CASE v.t = "string" -> v.s
    [] v.t = "number" -> NumberToString(v)
    [] v.t = "boolean" -> IF v.b THEN "true" ELSE "false"
    [] OTHER -> v.t

(***************************************************************************)
(* Objects as ordered mappings: a sequence of properties in insertion      *)
(* order, no key twice.                                                    *)
(***************************************************************************)
HasKey(obj, key) == \E i \in 1..Len(obj) : obj[i].k = key

GetProp(obj, key) ==
  IF HasKey(obj, key)
  THEN obj[CHOOSE i \in 1..Len(obj) : obj[i].k = key].v
  ELSE Undefined

\* obj[key] = value: an existing property keeps its place
SetProp(obj, key, value) ==
  IF HasKey(obj, key)
  THEN [i \in 1..Len(obj) |-> IF obj[i].k = key THEN Prop(key, value) ELSE obj[i]]
  ELSE Append(obj, Prop(key, value))

ObjectKeys(obj) == [i \in 1..Len(obj) |-> obj[i].k]

(***************************************************************************)
(* Ordering of strings by UTF-16 code units, the order of the default      *)
(* Array.prototype.sort.  KeyCodes holds the code units of every property  *)
(* name the model uses.                                                    *)
(***************************************************************************)
KeyCodes ==
  [ a |-> <<97>>,
    b |-> <<98>>,
    action |-> <<97, 99, 116, 105, 111, 110>>,
    amount |-> <<97, 109, 111, 117, 110, 116>>,
    apikey |-> <<97, 112, 105, 107, 101, 121>>,
    appid |-> <<97, 112, 112, 105, 100>>,
    clientOrderId |-> <<99, 108, 105, 101, 110, 116, 79, 114, 100, 101, 114, 73, 100>>,
    clientip |-> <<99, 108, 105, 101, 110, 116, 105, 112>>,
    currency |-> <<99, 117, 114, 114, 101, 110, 99, 121>>,
    customerEmail |-> <<99, 117, 115, 116, 111, 109, 101, 114, 69, 109, 97, 105, 108>>,
    customerName |-> <<99, 117, 115, 116, 111, 109, 101, 114, 78, 97, 109, 101>>,
    customerPhone |-> <<99, 117, 115, 116, 111, 109, 101, 114, 80, 104, 111, 110, 101>>,
    description |-> <<100, 101, 115, 99, 114, 105, 112, 116, 105, 111, 110>>,
    limit |-> <<108, 105, 109, 105, 116>>,
    orderId |-> <<111, 114, 100, 101, 114, 73, 100>>,
    page |-> <<112, 97, 103, 101>>,
    paymentMethod |-> <<112, 97, 121, 109, 101, 110, 116, 77, 101, 116, 104, 111, 100>>,
    sign |-> <<115, 105, 103, 110>>,
    sign_type |-> <<115, 105, 103, 110, 95, 116, 121, 112, 101>>,
    Z |-> <<90>>,
    x |-> <<120>>,
    y |-> <<121>> ]

RECURSIVE CodesLess(_, _)
CodesLess(u, w) ==
  IF Len(u) = 0 THEN Len(w) > 0
  ELSE IF Len(w) = 0 THEN FALSE
  ELSE IF u[1] # w[1] THEN u[1] < w[1]
  ELSE CodesLess(Tail(u), Tail(w))

StringLess(s, r) == CodesLess(KeyCodes[s], KeyCodes[r])

\* one step of the sort: key put in its place in a sorted sequence
RECURSIVE InsertSorted(_, _)
InsertSorted(key, sorted) ==
  IF Len(sorted) = 0 THEN <<key>>
  ELSE IF StringLess(key, sorted[1]) THEN <<key>> \o sorted
  ELSE <<sorted[1]>> \o InsertSorted(key, Tail(sorted))

RECURSIVE SortFrom(_, _)
SortFrom(keys, sorted) ==
  IF Len(keys) = 0 THEN sorted
  ELSE SortFrom(Tail(keys), InsertSorted(keys[1], sorted))

\* a sort that leaves the keys in insertion order
SortKeysUnsorted(keys) == keys

\* Object.keys(filtered).sort()
SortKeys(keys) == SortFrom(keys, <<>>)

(***************************************************************************)
(* _generateSign                                                           *)
(***************************************************************************)
\* a filter that drops every falsy value
FilterParamsFalsy(params) ==
  SelectSeq(params, LAMBDA e : /\ e.k \notin {"sign", "sign_type"}
                               /\ Truthy(e.v))

\* a filter that keeps sign_type and null
FilterParamsLax(params) ==
  SelectSeq(params, LAMBDA e : /\ e.k # "sign"
                               /\ e.v # Undefined)

\* the loop that copies params into filtered
FilterParams(params) ==
  SelectSeq(params, LAMBDA e : /\ ~(e.k = "sign" \/ e.k = "sign_type")
                               /\ ~(e.v = Null \/ e.v = Undefined))

\* one element of pairs
RenderPair(filtered, key) ==
  LET value == GetProp(filtered, key)
  IN  IF TypeofObject(value)
      THEN key \o "=" \o JSONStringify(value)
      ELSE key \o "=" \o TemplateString(value)

\* str + this.apiKey, the string that is digested
SignString(params, apiKey) ==
  LET filtered == FilterParams(params)
      sortedKeys == SortKeys(ObjectKeys(filtered))
      pairs == [i \in 1..Len(sortedKeys) |-> RenderPair(filtered, sortedKeys[i])]
      str == Join(pairs, "&")
  IN  str \o apiKey

\* the MD5 digest in lowercase hexadecimal, kept symbolic: the digest of a
\* string is a value determined by that string and by nothing else
MD5Hex(input) == [md5 |-> input]

generateSign(gw, params) == MD5Hex(SignString(params, gw.apiKey))

\* no call of _generateSign yet
NoOutput == [str |-> "", sign |-> Null]

\* pollOrderStatus not called
NoPoll == [pc |-> "idle"]

(***************************************************************************)
(* The client after construction.                                          *)
(***************************************************************************)
ApiKeys == {"key123", "s3cr3t"}

Gateways ==
  [baseUrl : {<<"https://socialites.io">>}, appId : {"app-1"}, apiKey : ApiKeys,
   clientIp : {"127.0.0.1"}, timeout : {30000}]

(***************************************************************************)
(* Errors, HTTP requests and the outcomes of the HTTP transport.           *)
(***************************************************************************)
\* new Error(message)
NewError(message) ==
  [name |-> "Error", message |-> TemplateString(message),
   response |-> Undefined, request |-> FALSE]

\* the error of a reply with a status outside 2xx: error.response is set
HttpError(status, data) ==
  [name |-> "AxiosError", message |-> "Request failed with status code " \o ToString(status),
   response |-> [t |-> "response", status |-> status, data |-> data], request |-> TRUE]

\* the error of a request that got no reply: error.request only
NoReplyError(message) ==
  [name |-> "AxiosError", message |-> message, response |-> Undefined, request |-> TRUE]

\* an error raised before the request left: neither response nor request
SetupError(message) ==
  [name |-> "TypeError", message |-> message, response |-> Undefined, request |-> FALSE]

Return(value) == [kind |-> "return", value |-> value]
Throw(error) == [kind |-> "throw", error |-> error]
Resolve(data) == [kind |-> "resolve", data |-> data]
Reject(error) == [kind |-> "reject", error |-> error]
NoResult == [kind |-> "none"]
NoOutcome == [kind |-> "none"]

\* the bodies a reply can carry: objects with any of code, message, error,
\* and the body of the status endpoint
BodyOf(code, message, error) ==
  SelectSeq(<<Prop("code", code), Prop("message", message), Prop("error", error),
              Prop("data", Obj(<<Prop("orderId", Str("X"))>>))>>,
            LAMBDA e : e.v # Undefined)

CodeValues == {Undefined, Cents(100), Cents(0), Str("1")}
MessageValues == {Undefined, Str(""), Str("dup"), Str("bad sign")}
ErrorValues == {Undefined, Str("denied")}

StatusBody ==
  <<Prop("status", Str("paid")), Prop("statusCode", Cents(200)), Prop("orderId", Str("ord-1"))>>

Bodies ==
  { BodyOf(c, m, e) : c \in CodeValues, m \in MessageValues, e \in ErrorValues }
    \cup {StatusBody}

TransportOutcomes ==
  { Resolve(data) : data \in Bodies }
    \cup { Reject(HttpError(400, data)) : data \in Bodies }
    \cup { Reject(NoReplyError("timeout of 30000ms exceeded")),
           Reject(NoReplyError("Network Error")),
           Reject(SetupError("Invalid URL")) }

Request(method, path, body, query) ==
  [method |-> method, path |-> path, body |-> body, query |-> query]

(***************************************************************************)
(* Invocations.  An invocation runs to its await (the request is sent),    *)
(* and is settled when the transport resolves or rejects.                  *)
(***************************************************************************)
CallIds == 1..MaxCalls

IdleCall ==
  [pc |-> "idle", op |-> "none", args |-> <<>>, sent |-> <<>>,
   outcome |-> NoOutcome, result |-> NoResult]

\* an invocation starts once
CanStart(id) == calls[id].pc = "idle"

\* the invocation threw before its await
Threw(id, op, args, error) ==
  calls' = [calls EXCEPT ![id] =
              [pc |-> "thrown", op |-> op, args |-> args, sent |-> <<>>,
               outcome |-> NoOutcome, result |-> Throw(error)]]

\* an invocation that keeps its request on the client, where the invocation
\* that starts next overwrites it
AwaitsShared(id, op, args, request) ==
  calls' = [c \in CallIds |->
              IF c = id
              THEN [pc |-> "awaiting", op |-> op, args |-> args, sent |-> <<request>>,
                    outcome |-> NoOutcome, result |-> NoResult]
              ELSE IF calls[c].pc = "awaiting"
              THEN [calls[c] EXCEPT !.sent = <<request>>]
              ELSE calls[c]]

\* the invocation sent its request and awaits the transport
Awaits(id, op, args, request) ==
  calls' = [calls EXCEPT ![id] =
              [pc |-> "awaiting", op |-> op, args |-> args, sent |-> <<request>>,
               outcome |-> NoOutcome, result |-> NoResult]]

\* an invocation that sends its request again when the transport rejects
SettledResent(id, outcome, result) ==
  calls' = [calls EXCEPT ![id].pc = IF result.kind = "return" THEN "returned" ELSE "thrown",
                         ![id].outcome = outcome,
                         ![id].result = result,
                         ![id].sent = IF outcome.kind = "reject" THEN @ \o @ ELSE @]

\* the invocation ended with result
Settled(id, outcome, result) ==
  calls' = [calls EXCEPT ![id].pc = IF result.kind = "return" THEN "returned" ELSE "thrown",
                         ![id].outcome = outcome,
                         ![id].result = result]

\* a destructuring default: used when the property is undefined
Default(value, dflt) == IF value = Undefined THEN dflt ELSE value

\* ToNumber, on the values of the model
ToNumber(v) ==
  CASE v.t = "number" -> v
    [] v.t = "boolean" -> IF v.b THEN Cents(Scale) ELSE Cents(0)
    [] v.t = "null" -> Cents(0)
    [] v.t = "string" ->
         CASE v.s = "" -> Cents(0)
           [] v.s = "0" -> Cents(0)
           [] v.s = "100" -> Cents(100 * Scale)
           [] OTHER -> NaN
    [] OTHER -> NaN

\* value <= 0
LessOrEqualZero(v) ==
  LET n == ToNumber(v) IN n.k = "finite" /\ n.c <= 0

\* list.includes(value)
Includes(list, value) == \E i \in 1..Len(list) : list[i] = value

(***************************************************************************)
(* createOrder                                                             *)
(***************************************************************************)
AmountValues ==
  { Undefined, Cents(0), Cents(-500), Cents(1), Cents(10000), NaN, Infinity,
    Str("abc"), Str("100") }
CurrencyValues == { Undefined, Str("CNY"), Str("USD"), Str("EUR") }
PaymentMethodValues == { Undefined, Str("alipay"), Str("wxpay"), Str("unknown") }

OrderOptions ==
  [amount : AmountValues, currency : CurrencyValues,
   paymentMethod : PaymentMethodValues,
   description : {Undefined, Str("Test order")},
   clientOrderId : {Undefined, Str("c-1")},
   customerName : {Undefined, Str(""), Str("John Doe")},
   customerEmail : {Undefined, Str("john@example.com")},
   customerPhone : {Undefined, Str("555")}]

\* the parameter validation: the error it throws, or Undefined
CreateOrderInvalid(amount, currency, paymentMethod) ==
  IF ~Truthy(amount) \/ LessOrEqualZero(amount)
  THEN NewError(Str("amount must be a positive number"))
  ELSE IF ~Truthy(currency) \/ ~Includes(<<Str("CNY"), Str("USD")>>, currency)
  THEN NewError(Str("currency must be CNY or USD"))
  ELSE IF ~Truthy(paymentMethod)
  THEN NewError(Str("paymentMethod is required"))
  ELSE IF ~Includes(<<Str("alipay"), Str("wxpay")>>, paymentMethod)
  THEN NewError(Str("paymentMethod must be alipay or wxpay"))
  ELSE Undefined

\* params.key = value when value is truthy
SetIfTruthy(params, key, value) ==
  IF Truthy(value) THEN SetProp(params, key, value) ELSE params

\* request parameters signed before the optional parameters are added
CreateOrderParamsSignedEarly(gw, options) ==
  LET base == << Prop("appid", Str(gw.appId)),
                 Prop("clientip", Str(gw.clientIp)),
                 Prop("action", Str("createorder")),
                 Prop("amount", options.amount),
                 Prop("currency", options.currency),
                 Prop("paymentMethod", options.paymentMethod),
                 Prop("description", Default(options.description, Str(""))),
                 Prop("sign_type", Str("MD5")) >>
      p0 == SetProp(base, "sign", generateSign(gw, base))
      p1 == SetIfTruthy(p0, "clientOrderId", Default(options.clientOrderId, Null))
      p2 == SetIfTruthy(p1, "customerName", Default(options.customerName, Str("")))
      p3 == SetIfTruthy(p2, "customerEmail", Default(options.customerEmail, Str("")))
  IN  SetIfTruthy(p3, "customerPhone", Default(options.customerPhone, Str("")))

\* the request parameters, signed
CreateOrderParams(gw, options) ==
  LET description == Default(options.description, Str(""))
      clientOrderId == Default(options.clientOrderId, Null)
      customerName == Default(options.customerName, Str(""))
      customerEmail == Default(options.customerEmail, Str(""))
      customerPhone == Default(options.customerPhone, Str(""))
      base == << Prop("appid", Str(gw.appId)),
                 Prop("clientip", Str(gw.clientIp)),
                 Prop("action", Str("createorder")),
                 Prop("amount", options.amount),
                 Prop("currency", options.currency),
                 Prop("paymentMethod", options.paymentMethod),
                 Prop("description", description),
                 Prop("sign_type", Str("MD5")) >>
      p1 == SetIfTruthy(base, "clientOrderId", clientOrderId)
      p2 == SetIfTruthy(p1, "customerName", customerName)
      p3 == SetIfTruthy(p2, "customerEmail", customerEmail)
      p4 == SetIfTruthy(p3, "customerPhone", customerPhone)
  IN  SetProp(p4, "sign", generateSign(gw, p4))

\* createOrder up to its await
CreateOrder(id, options) ==
  /\ CanStart(id)
  /\ LET invalid == CreateOrderInvalid(options.amount, options.currency,
                                       options.paymentMethod)
     IN  IF invalid # Undefined
         THEN Threw(id, "createOrder", options, invalid)
         ELSE Awaits(id, "createOrder", options,
                     Request("POST", <<"api", "createorder">>,
                             CreateOrderParams(gateway, options), <<>>))
  /\ UNCHANGED <<gateway, signVars, poll>>

\* a catch block that takes every error without a response for a lost reply
CatchSignedNoRequestTest(error, fallback) ==
  IF error.response # Undefined
  THEN Throw(NewError(OrElse(GetProp(error.response.data, "message"),
                             OrElse(GetProp(error.response.data, "error"),
                                    Str(fallback)))))
  ELSE Throw(NewError(Str("Network error: No response from server")))

\* the catch block of createOrder and queryOrder
CatchSigned(error, fallback) ==
  IF error.response # Undefined
  THEN Throw(NewError(OrElse(GetProp(error.response.data, "message"),
                             OrElse(GetProp(error.response.data, "error"),
                                    Str(fallback)))))
  ELSE IF error.request
  THEN Throw(NewError(Str("Network error: No response from server")))
  ELSE Throw(error)

\* the try block of createOrder, queryOrder and getExchangeRate
TryCodeCheck(outcome, fallback) ==
  IF outcome.kind = "resolve"
  THEN IF GetProp(outcome.data, "code") = Cents(1 * Scale)
       THEN Return(outcome.data)
       ELSE Throw(NewError(OrElse(GetProp(outcome.data, "message"), Str(fallback))))
  ELSE Throw(outcome.error)

CreateOrderResult(outcome) ==
  LET tried == TryCodeCheck(outcome, "Create order failed")
  IN  IF tried.kind = "return" THEN tried
      ELSE CatchSigned(tried.error, "Create order failed")

\* createOrder from its await on
CreateOrderSettle(id, outcome) ==
  /\ calls[id].pc = "awaiting"
  /\ calls[id].op = "createOrder"
  /\ Settled(id, outcome, CreateOrderResult(outcome))
  /\ UNCHANGED <<gateway, signVars, poll>>

(***************************************************************************)
(* queryOrder                                                              *)
(***************************************************************************)
LimitValues == { Undefined, Cents(0), Cents(20 * Scale), Cents(50 * Scale),
                 Cents(51 * Scale), Cents(1000 * Scale), Infinity }
PageValues == { Undefined, Cents(1 * Scale), Cents(3 * Scale) }
OrderIdValues == { Undefined, Str(""), Str("ord-1") }

QueryOptions == [orderId : OrderIdValues, limit : LimitValues, page : PageValues]

\* a minimum that returns its first argument
MathMinFirst(x, y) == x

\* Math.min(x, y)
MathMin(x, y) ==
  LET nx == ToNumber(x)
      ny == ToNumber(y)
  IN  IF nx.k = "NaN" \/ ny.k = "NaN" THEN NaN
      ELSE IF nx.k = "Infinity" THEN ny
      ELSE IF ny.k = "Infinity" THEN nx
      ELSE IF nx.c <= ny.c THEN nx ELSE ny

QueryOrderParams(gw, options) ==
  LET limit == Default(options.limit, Cents(10 * Scale))
      page == Default(options.page, Cents(1 * Scale))
      base == << Prop("appid", Str(gw.appId)),
                 Prop("apikey", Str(gw.apiKey)),
                 Prop("action", IF Truthy(options.orderId) THEN Str("order")
                                                           ELSE Str("orders")),
                 Prop("limit", MathMin(limit, Cents(50 * Scale))),
                 Prop("page", page) >>
      p1 == SetIfTruthy(base, "orderId", options.orderId)
      p2 == SetProp(p1, "sign", generateSign(gw, p1))
  IN  SetProp(p2, "sign_type", Str("MD5"))

\* queryOrder up to its await
QueryOrder(id, options) ==
  /\ CanStart(id)
  /\ Awaits(id, "queryOrder", options,
            Request("GET", <<"api", "order">>, <<>>, QueryOrderParams(gateway, options)))
  /\ UNCHANGED <<gateway, signVars, poll>>

QueryOrderResult(outcome) ==
  LET tried == TryCodeCheck(outcome, "Query order failed")
  IN  IF tried.kind = "return" THEN tried
      ELSE CatchSigned(tried.error, "Query order failed")

\* queryOrder from its await on
QueryOrderSettle(id, outcome) ==
  /\ calls[id].pc = "awaiting"
  /\ calls[id].op = "queryOrder"
  /\ Settled(id, outcome, QueryOrderResult(outcome))
  /\ UNCHANGED <<gateway, signVars, poll>>

(***************************************************************************)
(* checkOrderStatus and getExchangeRate, the public endpoints              *)
(***************************************************************************)
\* a catch block that looks at error.request first
CatchPublicRequestFirst(error, fallback) ==
  IF error.request
  THEN Throw(NewError(Str("Network error: No response from server")))
  ELSE IF error.response # Undefined
  THEN Throw(NewError(OrElse(GetProp(error.response.data, "message"), Str(fallback))))
  ELSE Throw(error)

\* the catch block of checkOrderStatus and getExchangeRate
CatchPublic(error, fallback) ==
  IF error.response # Undefined
  THEN Throw(NewError(OrElse(GetProp(error.response.data, "message"), Str(fallback))))
  ELSE IF error.request
  THEN Throw(NewError(Str("Network error: No response from server")))
  ELSE Throw(error)

\* checkOrderStatus up to its await
CheckOrderStatus(id, orderId) ==
  /\ CanStart(id)
  /\ IF ~Truthy(orderId)
     THEN Threw(id, "checkOrderStatus", orderId, NewError(Str("orderId is required")))
     ELSE Awaits(id, "checkOrderStatus", orderId,
                 Request("GET", <<"api", "order", "status", TemplateString(orderId)>>,
                         <<>>, <<>>))
  /\ UNCHANGED <<gateway, signVars, poll>>

\* a checkOrderStatus that checks the code of the body
CheckOrderStatusResultChecked(outcome) ==
  LET tried == TryCodeCheck(outcome, "Check order status failed")
  IN  IF tried.kind = "return" THEN tried
      ELSE CatchPublic(tried.error, "Check order status failed")

CheckOrderStatusResult(outcome) ==
  IF outcome.kind = "resolve"
  THEN Return(outcome.data)
  ELSE CatchPublic(outcome.error, "Check order status failed")

\* checkOrderStatus from its await on
CheckOrderStatusSettle(id, outcome) ==
  /\ calls[id].pc = "awaiting"
  /\ calls[id].op = "checkOrderStatus"
  /\ Settled(id, outcome, CheckOrderStatusResult(outcome))
  /\ UNCHANGED <<gateway, signVars, poll>>

\* getExchangeRate up to its await
GetExchangeRate(id) ==
  /\ CanStart(id)
  /\ Awaits(id, "getExchangeRate", Undefined,
            Request("GET", <<"api", "config", "exchange-rate">>, <<>>, <<>>))
  /\ UNCHANGED <<gateway, signVars, poll>>

GetExchangeRateResult(outcome) ==
  LET tried == TryCodeCheck(outcome, "Get exchange rate failed")
  IN  IF tried.kind = "return" THEN tried
      ELSE CatchPublic(tried.error, "Get exchange rate failed")

\* getExchangeRate from its await on
GetExchangeRateSettle(id, outcome) ==
  /\ calls[id].pc = "awaiting"
  /\ calls[id].op = "getExchangeRate"
  /\ Settled(id, outcome, GetExchangeRateResult(outcome))
  /\ UNCHANGED <<gateway, signVars, poll>>

(***************************************************************************)
(* The client used by one caller: an invocation at a time.                 *)
(***************************************************************************)
Init ==
  /\ gateway \in Gateways
  /\ signP = <<>>
  /\ signQ = <<>>
  /\ signRel = "none"
  /\ signAdded = 0
  /\ signOut = NoOutput
  /\ signOutQ = NoOutput
  /\ calls = [id \in CallIds |-> IdleCall]
  /\ poll = NoPoll

Next ==
  \E id \in {1} :
    \/ CanStart(id) /\ \E options \in OrderOptions : CreateOrder(id, options)
    \/ CanStart(id) /\ \E options \in QueryOptions : QueryOrder(id, options)
    \/ CanStart(id) /\ \E orderId \in OrderIdValues : CheckOrderStatus(id, orderId)
    \/ GetExchangeRate(id)
    \/ calls[id].op = "createOrder"
         /\ \E outcome \in TransportOutcomes : CreateOrderSettle(id, outcome)
    \/ calls[id].op = "queryOrder"
         /\ \E outcome \in TransportOutcomes : QueryOrderSettle(id, outcome)
    \/ calls[id].op = "checkOrderStatus"
         /\ \E outcome \in TransportOutcomes : CheckOrderStatusSettle(id, outcome)
    \/ calls[id].op = "getExchangeRate"
         /\ \E outcome \in TransportOutcomes : GetExchangeRateSettle(id, outcome)

Spec == Init /\ [][Next]_vars

\* the transport settles a request: a reply, an error, or the timeout
TransportSettles ==
  \E id \in {1} :
    /\ calls[id].pc = "awaiting"
    /\ \E outcome \in TransportOutcomes :
         \/ CreateOrderSettle(id, outcome)
         \/ QueryOrderSettle(id, outcome)
         \/ CheckOrderStatusSettle(id, outcome)
         \/ GetExchangeRateSettle(id, outcome)

\* the client with a transport that settles every request
FairSpec == Spec /\ WF_vars(TransportSettles)

(***************************************************************************)
(* Properties of the requests and results of the four operations.          *)
(***************************************************************************)
Started(id) == calls[id].pc # "idle"
Ended(id) == calls[id].pc \in {"returned", "thrown"}
Answered(id) == calls[id].outcome # NoOutcome

NetworkErrorMessage == "Network error: No response from server"

\* the generic message of each operation, as the documentation lists them
FallbackOf(op) ==
  CASE op = "createOrder" -> "Create order failed"
    [] op = "queryOrder" -> "Query order failed"
    [] op = "checkOrderStatus" -> "Check order status failed"
    [] op = "getExchangeRate" -> "Get exchange rate failed"

\* value is the number n
IsNumber(value, n) == value = [t |-> "number", k |-> "finite", c |-> n * Scale]

\* value is a non-empty string
IsText(value) == value.t = "string" /\ value.s # ""

\* C1: no request of createOrder, queryOrder, checkOrderStatus or
\* getExchangeRate carries the apiKey itself in its body, its query
\* parameters or its path.
C1_ApiKeyNeverSent ==
  \A id \in CallIds :
    \A n \in 1..Len(calls[id].sent) :
      LET req == calls[id].sent[n]
      IN  /\ \A i \in 1..Len(req.body) : req.body[i].v # Str(gateway.apiKey)
          /\ \A i \in 1..Len(req.query) : req.query[i].v # Str(gateway.apiKey)
          /\ \A i \in 1..Len(req.path) : req.path[i] # gateway.apiKey

(***************************************************************************)
(* The constructor.                                                        *)
(***************************************************************************)
\* no client yet
NoGateway ==
  [baseUrl |-> <<>>, appId |-> "", apiKey |-> "", clientIp |-> "", timeout |-> 0]

BaseUrlValues ==
  { Undefined, Text(<<>>), Text(<<"/">>), Text(<<"https://socialites.io">>),
    Text(<<"https://socialites.io", "/">>),
    Text(<<"https://socialites.io", "/", "/">>) }

ConfigValues ==
  [baseUrl : BaseUrlValues,
   appId : {Undefined, Str(""), Str("app-1")},
   apiKey : {Undefined, Str(""), Str("key123")},
   clientIp : {Undefined, Str("10.1.1.1")},
   timeout : {Undefined, Cents(0), Cents(5000 * Scale)}]

\* process.env.CLIENT_IP
EnvClientIpValues == {Undefined, Str("192.168.0.9")}

\* baseUrl.replace(/\/$/, '')
ReplaceTrailingSlash(parts) ==
  IF Len(parts) > 0 /\ parts[Len(parts)] = "/"
  THEN SubSeq(parts, 1, Len(parts) - 1)
  ELSE parts

\* the checks of the constructor: the error it throws, or Undefined
ConstructorInvalid(config) ==
  IF ~Truthy(config.baseUrl) THEN NewError(Str("baseUrl is required"))
  ELSE IF ~Truthy(config.appId) THEN NewError(Str("appId is required"))
  ELSE IF ~Truthy(config.apiKey) THEN NewError(Str("apiKey is required"))
  ELSE Undefined

\* the fields the constructor sets
Constructed(config, envClientIp) ==
  [baseUrl |-> ReplaceTrailingSlash(config.baseUrl.parts),
   appId |-> config.appId.s,
   apiKey |-> config.apiKey.s,
   clientIp |-> OrElse(config.clientIp, OrElse(envClientIp, Str("127.0.0.1"))).s,
   timeout |-> OrElse(config.timeout, Cents(30000 * Scale)).c \div Scale]

\* new PaymentGateway(config)
Constructor(id, config, envClientIp) ==
  /\ gateway = NoGateway
  /\ calls[id].pc = "idle"
  /\ LET invalid == ConstructorInvalid(config)
     IN  IF invalid # Undefined
         THEN /\ Threw(id, "constructor", config, invalid)
              /\ gateway' = gateway
         ELSE /\ gateway' = Constructed(config, envClientIp)
              /\ calls' = [calls EXCEPT ![id] =
                             [pc |-> "returned", op |-> "constructor", args |-> config,
                              sent |-> <<>>, outcome |-> NoOutcome,
                              result |-> Return(Undefined)]]
  /\ UNCHANGED <<signVars, poll>>

CtorInit ==
  /\ gateway = NoGateway
  /\ signP = <<>>
  /\ signQ = <<>>
  /\ signRel = "none"
  /\ signAdded = 0
  /\ signOut = NoOutput
  /\ signOutQ = NoOutput
  /\ calls = [id \in CallIds |-> IdleCall]
  /\ poll = NoPoll

CtorNext ==
  \E config \in ConfigValues, envClientIp \in EnvClientIpValues :
    Constructor(1, config, envClientIp)

CtorSpec == CtorInit /\ [][CtorNext]_vars

\* the configuration value is missing or empty
Missing(value) == value \in {Undefined, Str(""), Text(<<>>)}

\* C11: every client the constructor returns has a non-empty baseUrl, appId
\* and apiKey and a baseUrl that does not end with a slash; the constructor
\* throws (and nothing is sent) whenever baseUrl, appId or apiKey is missing
\* or empty; timeout is 30000 when none is given.
C11_ConfigInvariant ==
  \A id \in CallIds :
    calls[id].op = "constructor" =>
      /\ calls[id].pc = "returned" =>
           /\ gateway.baseUrl # <<>>
           /\ gateway.baseUrl[Len(gateway.baseUrl)] # "/"
           /\ gateway.appId # ""
           /\ gateway.apiKey # ""
      /\ ( \/ Missing(calls[id].args.baseUrl)
           \/ Missing(calls[id].args.appId)
           \/ Missing(calls[id].args.apiKey) )
           => (calls[id].pc = "thrown" /\ calls[id].sent = <<>> /\ gateway = NoGateway)
      /\ (calls[id].pc = "returned" /\ calls[id].args.timeout = Undefined)
           => gateway.timeout = 30000

(***************************************************************************)
(* The signer on its own: a parameter set signP is signed, a second set    *)
(* signQ is derived from it and signed too.                                *)
(***************************************************************************)
SignKeys == {"a", "b", "Z", "sign", "sign_type"}

\* the values of the first parameter set; null and undefined entries are
\* the ones AddExcluded adds
SignValues ==
  { Str("1"), Str("2"), Str(""), Cents(0), Bool(FALSE),
    Obj(<<Prop("y", Cents(1)), Prop("x", Arr(<<Str("u"), Undefined>>))>>) }

\* the value given to an added sign or sign_type entry
ExcludedValues == { Str("MD5") }

IsOrderedMap(obj) ==
  \A i, j \in 1..Len(obj) : obj[i].k = obj[j].k => i = j

ParamSetsOfLen(n) ==
  { obj \in [1..n -> [k : SignKeys, v : SignValues]] : IsOrderedMap(obj) }

ParamSets == UNION { ParamSetsOfLen(n) : n \in 0..MaxParams }

Reorderings(obj) ==
  { [i \in 1..Len(obj) |-> obj[f[i]]] :
      f \in { g \in [1..Len(obj) -> 1..Len(obj)] :
                \A i, j \in 1..Len(obj) : g[i] = g[j] => i = j } }


SignInit ==
  /\ gateway \in Gateways
  /\ signP \in ParamSets
  /\ signQ = <<>>
  /\ signRel = "none"
  /\ signAdded = 0
  /\ signOut = NoOutput
  /\ signOutQ = NoOutput
  /\ calls = [id \in CallIds |-> IdleCall]
  /\ poll = NoPoll

\* gateway._generateSign(signP)
Sign ==
  /\ signRel = "none"
  /\ signOut = NoOutput
  /\ signOut' = [str |-> SignString(signP, gateway.apiKey),
                 sign |-> generateSign(gateway, signP)]
  /\ signQ' = signP
  /\ signRel' = "same"
  /\ UNCHANGED <<gateway, signP, signAdded, signOutQ, calls, poll>>

\* the caller adds an entry the signature is to ignore
AddExcluded ==
  /\ signRel \in {"same", "excluded"}
  /\ signOutQ = NoOutput
  /\ signAdded < MaxExtra
  /\ \E key \in SignKeys, value \in ExcludedValues \cup {Null, Undefined} :
       /\ \/ key \in {"sign", "sign_type"} /\ value \in ExcludedValues
          \/ value \in {Null, Undefined} /\ ~HasKey(signQ, key)
       /\ signQ' = SetProp(signQ, key, value)
  /\ signRel' = "excluded"
  /\ signAdded' = signAdded + 1
  /\ UNCHANGED <<gateway, signP, signOut, signOutQ, calls, poll>>

\* the caller builds the same mapping in another insertion order
Reorder ==
  /\ signRel = "same"
  /\ signOutQ = NoOutput
  /\ \E perm \in Reorderings(signP) :
       /\ perm # signP
       /\ signQ' = perm
  /\ signRel' = "reordered"
  /\ UNCHANGED <<gateway, signP, signAdded, signOut, signOutQ, calls, poll>>

\* gateway._generateSign(signQ)
SignAgain ==
  /\ signRel \in {"same", "excluded", "reordered"}
  /\ signOutQ = NoOutput
  /\ signOutQ' = [str |-> SignString(signQ, gateway.apiKey),
                  sign |-> generateSign(gateway, signQ)]
  /\ UNCHANGED <<gateway, signP, signQ, signRel, signAdded, signOut, calls, poll>>

SignNext == Sign \/ AddExcluded \/ Reorder \/ SignAgain

SignSpec == SignInit /\ [][SignNext]_vars

(***************************************************************************)
(* The reference string of a parameter set, written out from the rules of  *)
(* the signature and not from the code: the keys in ascending order, the   *)
(* text of every value spelled out.                                        *)
(***************************************************************************)
RefAscending == <<"Z", "a", "b", "sign", "sign_type">>

RefText(v) ==
  CASE v = Str("1") -> "1"
    [] v = Str("2") -> "2"
    [] v = Str("") -> ""
    [] v = Cents(0) -> "0"
    [] v = Bool(FALSE) -> "false"
    [] v = Obj(<<Prop("y", Cents(1)), Prop("x", Arr(<<Str("u"), Undefined>>))>>)
         -> "{\"y\":0.01,\"x\":[\"u\",null]}"

RefContributes(P, key) ==
  /\ key # "sign"
  /\ key # "sign_type"
  /\ \E i \in 1..Len(P) : P[i].k = key /\ P[i].v # Null /\ P[i].v # Undefined

RECURSIVE RefJoined(_, _, _)
RefJoined(P, n, acc) ==
  IF n > Len(RefAscending) THEN acc
  ELSE LET key == RefAscending[n]
           val == (CHOOSE e \in {P[i] : i \in 1..Len(P)} : e.k = key).v
       IN  IF RefContributes(P, key)
           THEN RefJoined(P, n + 1,
                          (IF acc = "" THEN "" ELSE acc \o "&")
                            \o key \o "=" \o RefText(val))
           ELSE RefJoined(P, n + 1, acc)

RefString(P, S) == RefJoined(P, 1, "") \o S

C3_SignatureExclusion ==
  (signRel = "excluded" /\ signOutQ # NoOutput) => signOutQ.sign = signOut.sign

C3_Witness ==
  /\ signRel = "excluded"
  /\ signOutQ # NoOutput
  /\ signOutQ.sign = signOut.sign
  /\ Len(FilterParams(signP)) > 0
  /\ Len(signQ) > Len(signP)
  /\ GetProp(signQ, "sign_type") = Str("MD5")

\* C4: signing the same parameter set again, or a parameter set that is the
\* same mapping built in another insertion order, gives the same signature.
C4_SignatureDeterminism ==
  (signRel \in {"same", "reordered"} /\ signOutQ # NoOutput)
    => signOutQ.sign = signOut.sign

C4_Witness ==
  /\ signRel = "reordered"
  /\ signOutQ # NoOutput
  /\ signOutQ.sign = signOut.sign
  /\ Len(FilterParams(signP)) >= 2
  /\ signQ # signP

ValidationMessages ==
  { "amount must be a positive number", "currency must be CNY or USD",
    "paymentMethod is required", "paymentMethod must be alipay or wxpay" }

\* the invocation failed in validation: an error before any request
FailedValidation(id) ==
  /\ calls[id].pc = "thrown"
  /\ calls[id].sent = <<>>
  /\ calls[id].result.kind = "throw"
  /\ calls[id].result.error.message \in ValidationMessages

\* the request the contract accepts
AcceptableOrder(options) ==
  /\ options.amount.t = "number"
  /\ options.amount.k = "finite"
  /\ options.amount.c > 0
  /\ options.currency \in {Str("CNY"), Str("USD")}
  /\ options.paymentMethod \in {Str("alipay"), Str("wxpay")}

\* C5: createOrder fails with a validation error for every request whose
\* amount is not a finite number greater than 0, whose currency is not CNY or
\* USD, or whose paymentMethod is missing or not alipay or wxpay; and amount
\* 0.01 with CNY and alipay passes validation.
C5_ValidationRejects ==
  \A id \in CallIds :
    (Started(id) /\ calls[id].op = "createOrder") =>
      /\ ~AcceptableOrder(calls[id].args) => FailedValidation(id)
      /\ ( /\ calls[id].args.amount = Cents(1)
           /\ calls[id].args.currency = Str("CNY")
           /\ calls[id].args.paymentMethod = Str("alipay") )
           => (~FailedValidation(id) /\ Len(calls[id].sent) = 1)

\* C6: when the transport of createOrder succeeds, a body with code 1 is
\* returned unchanged, and any other body fails with the server's message, or
\* with 'Create order failed' when there is none; that failure is neither a
\* success nor the no-response error.
C6_CreateOrderCodeCheck ==
  \A id \in CallIds :
    (calls[id].op = "createOrder" /\ calls[id].outcome.kind = "resolve") =>
      LET data == calls[id].outcome.data
          message == GetProp(data, "message")
      IN  IF IsNumber(GetProp(data, "code"), 1)
          THEN /\ calls[id].pc = "returned"
               /\ calls[id].result = Return(data)
          ELSE /\ calls[id].pc = "thrown"
               /\ calls[id].result.kind = "throw"
               /\ calls[id].result.error.message =
                    (IF IsText(message) THEN message.s ELSE "Create order failed")
               /\ calls[id].result.error.message # NetworkErrorMessage

C6_Witness ==
  /\ calls[1].op = "createOrder"
  /\ calls[1].outcome = Resolve(BodyOf(Cents(0), Str("dup"), Undefined))
  /\ calls[1].pc = "thrown"
  /\ calls[1].result.error.message = "dup"

NumberAbove(value, n) ==
  \/ value.k = "Infinity"
  \/ value.k = "finite" /\ value.c > n * Scale

\* C8: the limit queryOrder sends is never above 50: a requested limit above
\* 50 is sent as 50 and the call is not rejected, a limit of at most 50 is
\* sent as given (10 when none is given), and page is sent unchanged (1 when
\* none is given).
C8_LimitCapped ==
  \A id \in CallIds :
    (Started(id) /\ calls[id].op = "queryOrder") =>
      /\ Len(calls[id].sent) = 1
      /\ LET query == calls[id].sent[1].query
             asked == IF calls[id].args.limit = Undefined
                      THEN Cents(10 * Scale) ELSE calls[id].args.limit
             page == IF calls[id].args.page = Undefined
                     THEN Cents(1 * Scale) ELSE calls[id].args.page
         IN  /\ ~NumberAbove(GetProp(query, "limit"), 50)
             /\ NumberAbove(asked, 50) => IsNumber(GetProp(query, "limit"), 50)
             /\ ~NumberAbove(asked, 50) => GetProp(query, "limit") = asked
             /\ GetProp(query, "page") = page

C8_Witness ==
  /\ calls[1].op = "queryOrder"
  /\ calls[1].args.limit = Cents(1000 * Scale)
  /\ IsNumber(GetProp(calls[1].sent[1].query, "limit"), 50)

\* the failures of a public endpoint keep a lost reply and an error the
\* server reported apart
PublicFailuresApart(id) ==
  calls[id].outcome.kind = "reject" =>
    /\ calls[id].result.kind = "throw"
    /\ (calls[id].outcome.error.response = Undefined /\ calls[id].outcome.error.request)
         => calls[id].result.error.message = NetworkErrorMessage
    /\ calls[id].outcome.error.response # Undefined
         => calls[id].result.error.message # NetworkErrorMessage

\* C9: checkOrderStatus and getExchangeRate make no check of code: when the
\* transport succeeds each returns the body, whatever its code; when it fails
\* each tells a lost reply from an error the server reported.
C9_PublicSkipCodeCheck ==
  \A id \in CallIds :
    calls[id].op \in {"checkOrderStatus", "getExchangeRate"} =>
      /\ calls[id].outcome.kind = "resolve"
           => calls[id].result = Return(calls[id].outcome.data)
      /\ PublicFailuresApart(id)

\* C9 as amended: checkOrderStatus makes no check of code and returns the
\* body whatever its code; getExchangeRate returns the body when its code is
\* 1 and otherwise fails with the server's message or 'Get exchange rate
\* failed'; when the transport fails each tells a lost reply from an error
\* the server reported.
C9_OnlyStatusSkipsCodeCheck ==
  \A id \in CallIds :
    /\ calls[id].op = "checkOrderStatus" =>
         /\ calls[id].outcome.kind = "resolve"
              => calls[id].result = Return(calls[id].outcome.data)
         /\ PublicFailuresApart(id)
    /\ calls[id].op = "getExchangeRate" =>
         /\ calls[id].outcome.kind = "resolve" =>
              LET data == calls[id].outcome.data
                  message == GetProp(data, "message")
              IN  IF IsNumber(GetProp(data, "code"), 1)
                  THEN calls[id].result = Return(data)
                  ELSE /\ calls[id].result.kind = "throw"
                       /\ calls[id].result.error.message =
                            (IF IsText(message) THEN message.s
                                                ELSE "Get exchange rate failed")
         /\ PublicFailuresApart(id)

C9_Witness ==
  /\ calls[1].op = "checkOrderStatus"
  /\ calls[1].outcome = Resolve(BodyOf(Cents(0), Str("dup"), Undefined))
  /\ calls[1].pc = "returned"
  /\ calls[1].result.value = calls[1].outcome.data

\* a result with the generic message of its operation made anonymous
UpToFallback(result) ==
  IF /\ result.kind = "throw"
     /\ result.error.message \in {"Create order failed", "Get exchange rate failed"}
  THEN Throw([result.error EXCEPT !.message = "generic"])
  ELSE result

\* C10: for every outcome of the transport getExchangeRate returns or fails
\* as createOrder does for that outcome, up to the generic message of the
\* operation.
C10_SameNormalization ==
  \A id \in CallIds :
    (calls[id].op = "getExchangeRate" /\ Answered(id)) =>
      UpToFallback(calls[id].result)
        = UpToFallback(CreateOrderResult(calls[id].outcome))

Operations == {"createOrder", "queryOrder", "checkOrderStatus", "getExchangeRate"}

\* the invocation ended with a validation error
ValidationError(id) ==
  /\ calls[id].pc = "thrown"
  /\ calls[id].outcome = NoOutcome
  /\ calls[id].result.kind = "throw"
  /\ \/ /\ calls[id].op = "createOrder"
        /\ calls[id].result.error.message \in ValidationMessages
     \/ /\ calls[id].op = "checkOrderStatus"
        /\ calls[id].result.error.message = "orderId is required"

\* an invocation has sent no request, or one
RequestCount(id) ==
  (Started(id) /\ calls[id].op \in Operations) =>
    IF ValidationError(id)
    THEN calls[id].sent = <<>>
    ELSE /\ Len(calls[id].sent) = 1
         /\ calls[id].pc = "awaiting" => calls[id].result = NoResult
         /\ Ended(id) => (Answered(id) /\ calls[id].result.kind \in {"return", "throw"})

\* C12: an invocation of createOrder or checkOrderStatus that fails
\* validation sends no request; every other invocation of the four
\* operations sends exactly one request and then ends with a result or an
\* error; no invocation sends a second request, whatever the outcome of the
\* first.
C12_OneRequest ==
  /\ [](\A id \in CallIds : RequestCount(id))
  /\ [][\A id \in CallIds :
          Len(calls[id].sent) = 1 => calls'[id].sent = calls[id].sent]_vars
  /\ \A id \in CallIds : (calls[id].pc = "awaiting") ~> Ended(id)

C12_Witness ==
  /\ calls[1].op = "queryOrder"
  /\ calls[1].pc = "thrown"
  /\ calls[1].outcome = Reject(NoReplyError("timeout of 30000ms exceeded"))
  /\ Len(calls[1].sent) = 1

\* the parameter set a signed operation transmits
Transmitted(id) ==
  IF calls[id].op = "createOrder" THEN calls[id].sent[1].body
                                  ELSE calls[id].sent[1].query

\* the transmitted parameters other than sign and sign_type
SignedPart(params) ==
  SelectSeq(params, LAMBDA e : e.k \notin {"sign", "sign_type"})

OptionalFields == {"clientOrderId", "customerName", "customerEmail", "customerPhone"}

\* C13: every request of createOrder and of queryOrder transmits sign_type
\* "MD5" and a sign that is the signature, under the apiKey, of exactly the
\* other transmitted parameters; createOrder transmits clientOrderId,
\* customerName, customerEmail and customerPhone only when they are truthy,
\* and always transmits description, the empty string when none is given.
C13_SignedRequests ==
  \A id \in CallIds :
    (calls[id].op \in {"createOrder", "queryOrder"} /\ Len(calls[id].sent) = 1) =>
      LET params == Transmitted(id)
          args == calls[id].args
      IN  /\ GetProp(params, "sign_type") = Str("MD5")
          /\ GetProp(params, "sign") = generateSign(gateway, SignedPart(params))
          /\ calls[id].op = "createOrder" =>
               /\ \A field \in OptionalFields :
                    /\ HasKey(params, field) <=> Truthy(args[field])
                    /\ HasKey(params, field) => GetProp(params, field) = args[field]
               /\ HasKey(params, "description")
               /\ GetProp(params, "description") =
                    (IF args.description = Undefined THEN Str("") ELSE args.description)
               /\ ( /\ gateway.apiKey = "key123"
                    /\ args = [amount |-> Cents(1), currency |-> Str("USD"),
                               paymentMethod |-> Str("wxpay"),
                               description |-> Str("Test order"),
                               clientOrderId |-> Str("c-1"),
                               customerName |-> Str("John Doe"),
                               customerEmail |-> Str("john@example.com"),
                               customerPhone |-> Str("555")] )
                    => GetProp(params, "sign") =
                         [md5 |-> "action=createorder&amount=0.01&appid=app-1&clientOrderId=c-1&clientip=127.0.0.1&currency=USD&customerEmail=john@example.com&customerName=John Doe&customerPhone=555&description=Test order&paymentMethod=wxpaykey123"]
          /\ ( /\ calls[id].op = "queryOrder"
               /\ gateway.apiKey = "key123"
               /\ args = [orderId |-> Str("ord-1"), limit |-> Cents(1000 * Scale),
                          page |-> Undefined] )
               => GetProp(params, "sign") =
                    [md5 |-> "action=order&apikey=key123&appid=app-1&limit=50&orderId=ord-1&page=1key123"]

C13_Witness ==
  /\ calls[1].op = "createOrder"
  /\ Len(calls[1].sent) = 1
  /\ calls[1].args.customerName = Str("")
  /\ calls[1].args.customerEmail = Str("john@example.com")
  /\ ~HasKey(calls[1].sent[1].body, "customerName")
  /\ HasKey(calls[1].sent[1].body, "customerEmail")
  /\ GetProp(calls[1].sent[1].body, "sign")
       = generateSign(gateway, SignedPart(calls[1].sent[1].body))

(***************************************************************************)
(* Concurrent invocations on one client: every invocation may start while  *)
(* others await, and the transport settles them in any order.              *)
(***************************************************************************)
ConcOrderOptions ==
  { [amount |-> Cents(10000), currency |-> Str("CNY"), paymentMethod |-> Str("alipay"),
     description |-> Undefined, clientOrderId |-> Undefined,
     customerName |-> Undefined, customerEmail |-> Undefined,
     customerPhone |-> Undefined],
    [amount |-> Cents(1), currency |-> Str("USD"), paymentMethod |-> Str("wxpay"),
     description |-> Str("Test order"), clientOrderId |-> Str("c-1"),
     customerName |-> Str("John Doe"), customerEmail |-> Str("john@example.com"),
     customerPhone |-> Str("555")],
    [amount |-> Cents(0), currency |-> Str("CNY"), paymentMethod |-> Str("alipay"),
     description |-> Undefined, clientOrderId |-> Undefined,
     customerName |-> Undefined, customerEmail |-> Undefined,
     customerPhone |-> Undefined] }

ConcQueryOptions ==
  { [orderId |-> Str("ord-1"), limit |-> Undefined, page |-> Undefined],
    [orderId |-> Undefined, limit |-> Cents(1000 * Scale), page |-> Cents(3 * Scale)] }

ConcOrderIds == { Str(""), Str("ord-1") }

ConcOutcomes ==
  { Resolve(BodyOf(Cents(100), Undefined, Undefined)),
    Resolve(BodyOf(Cents(0), Str("dup"), Undefined)),
    Resolve(StatusBody),
    Reject(HttpError(400, BodyOf(Undefined, Undefined, Str("denied")))),
    Reject(NoReplyError("Network Error")) }

ConcNext ==
  \E id \in CallIds :
    \/ CanStart(id) /\ \E options \in ConcOrderOptions : CreateOrder(id, options)
    \/ CanStart(id) /\ \E options \in ConcQueryOptions : QueryOrder(id, options)
    \/ CanStart(id) /\ \E orderId \in ConcOrderIds : CheckOrderStatus(id, orderId)
    \/ GetExchangeRate(id)
    \/ calls[id].op = "createOrder"
         /\ \E outcome \in ConcOutcomes : CreateOrderSettle(id, outcome)
    \/ calls[id].op = "queryOrder"
         /\ \E outcome \in ConcOutcomes : QueryOrderSettle(id, outcome)
    \/ calls[id].op = "checkOrderStatus"
         /\ \E outcome \in ConcOutcomes : CheckOrderStatusSettle(id, outcome)
    \/ calls[id].op = "getExchangeRate"
         /\ \E outcome \in ConcOutcomes : GetExchangeRateSettle(id, outcome)

ConcSpec == Init /\ [][ConcNext]_vars

\* the requests an invocation sends when it is the only one on the client
AloneSent(gw, op, args) ==
  CASE op = "createOrder" ->
         IF CreateOrderInvalid(args.amount, args.currency, args.paymentMethod) # Undefined
         THEN <<>>
         ELSE <<Request("POST", <<"api", "createorder">>, CreateOrderParams(gw, args), <<>>)>>
    [] op = "queryOrder" ->
         <<Request("GET", <<"api", "order">>, <<>>, QueryOrderParams(gw, args))>>
    [] op = "checkOrderStatus" ->
         IF Truthy(args)
         THEN <<Request("GET", <<"api", "order", "status", TemplateString(args)>>, <<>>, <<>>)>>
         ELSE <<>>
    [] op = "getExchangeRate" ->
         <<Request("GET", <<"api", "config", "exchange-rate">>, <<>>, <<>>)>>

\* the result of an invocation, alone, for the outcome of its request
AloneResult(op, outcome) ==
  CASE op = "createOrder" -> CreateOrderResult(outcome)
    [] op = "queryOrder" -> QueryOrderResult(outcome)
    [] op = "checkOrderStatus" -> CheckOrderStatusResult(outcome)
    [] op = "getExchangeRate" -> GetExchangeRateResult(outcome)

\* C14: no operation changes the client configuration, and under every
\* interleaving of concurrent invocations each invocation has sent the
\* request, and ends with the result, that it has when it runs alone with
\* the same arguments and the same transport outcome; what an invocation
\* was called with and what it sent is never changed by another invocation.
C14_Independent ==
  /\ [](\A id \in CallIds :
          Started(id) =>
            /\ calls[id].sent = AloneSent(gateway, calls[id].op, calls[id].args)
            /\ (Ended(id) /\ Answered(id)) =>
                 calls[id].result = AloneResult(calls[id].op, calls[id].outcome)
            /\ calls[id].pc = "awaiting" => calls[id].result = NoResult)
  /\ [][gateway' = gateway]_vars
  /\ [][\A id \in CallIds :
          Started(id) =>
            /\ calls'[id].op = calls[id].op
            /\ calls'[id].args = calls[id].args
            /\ calls'[id].sent = calls[id].sent
            /\ Ended(id) => calls'[id] = calls[id]]_vars

\* a createOrder still awaits while a queryOrder that shares the client
\* has ended, each with its own signed parameters
C14_Witness ==
  /\ calls[1].op = "createOrder"
  /\ calls[1].pc = "awaiting"
  /\ calls[2].op = "queryOrder"
  /\ calls[2].pc = "returned"
  /\ GetProp(calls[1].sent[1].body, "sign")
       # GetProp(calls[2].sent[1].query, "sign")

(***************************************************************************)
(* pollOrderStatus (src/examples/order-polling.js): the polling loop over  *)
(* checkOrderStatus.  The loop uses invocation 1 of the client; the sleep  *)
(* between two attempts is a step of its own, its duration is not          *)
(* modelled.  The onStatusChange callback is taken to return.              *)
(***************************************************************************)
DefaultMaxAttempts == 60

\* the statuses that end the polling
TerminalStatusesNoCancelled == <<Str("paid"), Str("failed")>>

TerminalStatuses == <<Str("paid"), Str("failed"), Str("cancelled")>>

PollOrderIds == { Str("ord-1"), Str("") }

PollOptions ==
  [maxAttempts : {Undefined} \cup { Cents(n * Scale) : n \in 0..MaxAttempts },
   onStatusChange : {Undefined, Str("callback")}]

\* the body of the status endpoint for an order in the given status
StatusBodyOf(status) ==
  <<Prop("status", Str(status)), Prop("orderId", Str("ord-1"))>>

PollOutcomes ==
  { Resolve(StatusBodyOf(status)) :
      status \in {"pending", "ready", "paid", "failed", "cancelled"} }
    \cup { Resolve(BodyOf(Cents(0), Str("dup"), Undefined)),
           Reject(HttpError(404, BodyOf(Undefined, Str("Order not found"), Undefined))),
           Reject(NoReplyError("timeout of 30000ms exceeded")) }

\* attempts < maxAttempts
AttemptsLeft(attempts, maxAttempts) == attempts * Scale < maxAttempts.c

\* where the loop goes after attempts++
AfterAttempt(attempts, maxAttempts) ==
  IF AttemptsLeft(attempts, maxAttempts) THEN "sleeping" ELSE "loop"

\* the result returned for a terminal status
TerminalResult(status, attempts) ==
  Obj(<<Prop("success", Bool(GetProp(status, "status") = Str("paid"))),
        Prop("status", Obj(status)),
        Prop("attempts", Cents((attempts + 1) * Scale))>>)

\* the result returned when the attempts are used up
TimeoutResult(orderId, maxAttempts) ==
  Obj(<<Prop("success", Bool(FALSE)),
        Prop("status", Obj(<<Prop("status", Str("timeout")),
                             Prop("statusCode", Cents(-1 * Scale)),
                             Prop("orderId", orderId)>>)),
        Prop("attempts", maxAttempts),
        Prop("timeout", Bool(TRUE))>>)

\* pollOrderStatus up to the first test of the loop
PollStart(orderId, options) ==
  /\ poll.pc = "idle"
  /\ calls[1].pc = "idle"
  /\ poll' = [pc |-> "loop",
              orderId |-> orderId,
              maxAttempts |-> Default(options.maxAttempts,
                                      Cents(DefaultMaxAttempts * Scale)),
              onStatusChange |-> Default(options.onStatusChange, Null),
              attempts |-> 0,
              lastStatus |-> Null,
              notified |-> NoOutput,
              made |-> 0,
              anyFailed |-> FALSE,
              lastCall |-> NoResult,
              result |-> NoOutput]
  /\ UNCHANGED <<gateway, signVars, calls>>

\* the loop test holds: gateway.checkOrderStatus(orderId) runs to its await
PollCall ==
  /\ poll.pc = "loop"
  /\ AttemptsLeft(poll.attempts, poll.maxAttempts)
  /\ CheckOrderStatus(1, poll.orderId)

\* the transport settles the request of the attempt
PollSettle(outcome) ==
  /\ poll.pc = "loop"
  /\ CheckOrderStatusSettle(1, outcome)

\* the loop body from the await on: the try block, or the catch block
PollResume ==
  /\ poll.pc = "loop"
  /\ Ended(1)
  /\ LET call == calls[1].result
         counted == [poll EXCEPT !.made = @ + 1, !.lastCall = call]
     IN  IF call.kind = "return"
         THEN LET status == call.value
                  changed == Truthy(poll.onStatusChange)
                               /\ GetProp(status, "status") # poll.lastStatus
                  seen == [counted EXCEPT
                             !.notified = IF changed THEN Obj(status) ELSE @,
                             !.lastStatus = GetProp(status, "status")]
              IN  IF Includes(TerminalStatuses, GetProp(status, "status"))
                  THEN poll' = [seen EXCEPT
                                  !.pc = "done",
                                  !.result = TerminalResult(status, poll.attempts)]
                  ELSE poll' = [seen EXCEPT
                                  !.attempts = @ + 1,
                                  !.pc = AfterAttempt(poll.attempts + 1, poll.maxAttempts)]
         ELSE poll' = [counted EXCEPT
                         !.anyFailed = TRUE,
                         !.attempts = @ + 1,
                         !.pc = AfterAttempt(poll.attempts + 1, poll.maxAttempts)]
  /\ calls' = [calls EXCEPT ![1] = IdleCall]
  /\ UNCHANGED <<gateway, signVars>>

\* the sleep between two attempts is over
PollWake ==
  /\ poll.pc = "sleeping"
  /\ poll' = [poll EXCEPT !.pc = "loop"]
  /\ UNCHANGED <<gateway, signVars, calls>>

\* the loop test fails: the timeout result
PollTimeout ==
  /\ poll.pc = "loop"
  /\ calls[1].pc = "idle"
  /\ ~AttemptsLeft(poll.attempts, poll.maxAttempts)
  /\ poll' = [poll EXCEPT !.pc = "done",
                          !.result = TimeoutResult(poll.orderId, poll.maxAttempts)]
  /\ UNCHANGED <<gateway, signVars, calls>>

\* the steps of a polling that has started
PollRuns ==
  \/ PollCall
  \/ \E outcome \in PollOutcomes : PollSettle(outcome)
  \/ PollResume
  \/ PollWake
  \/ PollTimeout

PollNext ==
  \/ \E orderId \in PollOrderIds, options \in PollOptions : PollStart(orderId, options)
  \/ PollRuns

\* the event loop runs what is ready, the transport settles every request
\* (a reply, an error or the timeout) and every timer fires
PollSpec == Init /\ [][PollNext]_vars /\ WF_vars(PollRuns)

\* number of calls to checkOrderStatus so far, the one in progress included
CallsMade == poll.made + (IF calls[1].pc = "idle" THEN 0 ELSE 1)

\* the last call yielded a terminal status
YieldedTerminal(call) ==
  /\ call.kind = "return"
  /\ GetProp(call.value, "status") \in {Str("paid"), Str("failed"), Str("cancelled")}

====
